---- MODULE Spec2Model ----
(***************************************************************************)
(* Model of the proposal/vote canister in                                  *)
(* src/final_project_backend/src/lib.rs.                                   *)
(*                                                                         *)
(* The state is PROPOSAL_MAP, a StableBTreeMap<u64, Proposal>.  Every      *)
(* exposed function runs to completion, so each call is one action.  The   *)
(* variable `last` records the call that produced the current state (its   *)
(* arguments, caller and reply) and `prev` the map when that call started, *)
(* so that a property of one call is a state predicate over prev, last and *)
(* store, and a property of two calls in a row an action property.         *)
(*                                                                         *)
(* A value whose encoding is longer than BoundedStorable::MAX_SIZE makes   *)
(* StableBTreeMap::insert panic; the canister traps, the host discards     *)
(* the call's state changes and the caller gets a reject ("Trap").         *)
(*                                                                         *)
(* The counters are i32, but every successful vote adds a principal of at  *)
(* least 2 encoded bytes to a record capped at 5000 bytes, so a counter    *)
(* never leaves -2500..2500 and the width is not modelled.                 *)
(***************************************************************************)
EXTENDS Integers, Sequences, FiniteSets, TLC

\* ---------------------------------------------------------------- bounds
MaxKey == 2
MaxCalls == 4

Keys == 1..MaxKey
\* "A" is a self-authenticating identity, "B" the anonymous principal.
Principals == {"A", "B"}

\* A description is the text ch repeated n times (n bytes of UTF-8).
Text(ch, n) == [ch |-> ch, n |-> n]
Descriptions == {Text("D", 1), Text("E", 4910)}

\* ------------------------------------------------------------- constants
MAX_VALUE_SIZE == 5000

Choice == {"Approve", "Reject", "Pass"}
VoteError == {"AlreadyVoted", "ProposalIsNotActive", "NoSuchProposal",
              "AccessRejected", "UpdateError"}

\* Option<T>: None is the empty sequence, Some(x) a one-element sequence.
None == <<>>
Some(x) == <<x>>

\* store   : PROPOSAL_MAP
\* last    : the call that led to this state, with its reply
\* prev    : PROPOSAL_MAP as it was when that call started
\* created : the keys create_proposal has been called with
\* ended   : the keys on which end_proposal has succeeded
\* inserted: the keys on which create_proposal has returned
\* votes   : per key and principal, the successful votes of the principal on
\*           the key since the last create_proposal call on the key
\* calls   : the number of calls made
VARIABLES store, last, prev, created, ended, inserted, votes, calls
vars == <<store, last, prev, created, ended, inserted, votes, calls>>

\* ------------------------------------------------------------ the record
Proposal(description, approve, reject, pass, is_active, voted, owner) ==
  [description |-> description, approve |-> approve, reject |-> reject,
   pass |-> pass, is_active |-> is_active, voted |-> voted, owner |-> owner]

CreateProposal == [description : Descriptions, is_active : BOOLEAN]

\* Vec::contains
Contains(v, x) == \E i \in 1..Len(v) : v[i] = x

\* ---------------------------------------------------------- the encoding
\* Length of an unsigned LEB128 number.
Leb128Len(n) == IF n < 128 THEN 1 ELSE IF n < 16384 THEN 2 ELSE 3

\* Bytes of a principal: a self-authenticating identity has 29 bytes, the
\* anonymous principal has one.
PrincipalLen(p) == IF p = "B" THEN 1 ELSE 29

\* Candid encoding of a principal value: flag byte, length, bytes.
PrincipalSize(p) == 1 + Leb128Len(PrincipalLen(p)) + PrincipalLen(p)

RECURSIVE VotedSize(_)
VotedSize(v) == IF v = <<>> THEN 0
                ELSE PrincipalSize(Head(v)) + VotedSize(Tail(v))

\* Encode!(self).len(): "DIDL", a type table of two entries (the record of
\* seven fields, each a LEB128 field hash and a type, and vec principal),
\* one argument, then the seven values.
to_bytes_len(p) ==
  4 + 1 + (2 + (6 * (5 + 1)) + (4 + 1)) + 2 + 2
  + Leb128Len(p.description.n) + p.description.n
  + 4 + 4 + 4
  + 1
  + Leb128Len(Len(p.voted)) + VotedSize(p.voted)
  + PrincipalSize(p.owner)

\* -------------------------------------------------------------- the store
\* StableBTreeMap::get
Get(map, key) == IF key \in DOMAIN map THEN Some(map[key]) ELSE None

\* Mutant of MapLen: only the active proposals are counted.
MapLen_active(map) == Cardinality({k \in DOMAIN map : map[k].is_active})

\* StableBTreeMap::len
MapLen(map) == Cardinality(DOMAIN map)

\* Mutant of InsertPanics: only the description is held against the cap.
InsertPanics_description_only(value) == value.description.n > MAX_VALUE_SIZE

\* StableBTreeMap::insert panics when the value is larger than MAX_SIZE.
InsertPanics(value) == to_bytes_len(value) > MAX_VALUE_SIZE

\* Mutant of Insert: the map is left with the inserted key only.
Insert_alone(map, key, value) == [k \in {key} |-> value]

\* StableBTreeMap::insert: the map after the insert (the call returns
\* Get(map, key), the previous value).
Insert(map, key, value) ==
  [k \in (DOMAIN map) \cup {key} |-> IF k = key THEN value ELSE map[k]]

\* ------------------------------------------------------------- the calls
NoDesc == Text("", 0)

Call(name, key, caller, description, is_active, choice, result, ret) ==
  [name |-> name, key |-> key, caller |-> caller, description |-> description,
   is_active |-> is_active, choice |-> choice, result |-> result, ret |-> ret]

Init ==
  /\ store = <<>>
  /\ last = Call("init", 0, "", NoDesc, FALSE, "", "", None)
  /\ prev = <<>>
  /\ created = {}
  /\ ended = {}
  /\ inserted = {}
  /\ votes = [k \in Keys |-> [p \in Principals |-> 0]]
  /\ calls = 0

\* Mutant of UpdateResult: the two arms of the match are swapped.
UpdateResult_swapped(map, key) ==
  IF Get(map, key) = None THEN "Ok" ELSE "UpdateError"

\* match p.insert(key, value) { Some(_) => Ok(()), None => Err(UpdateError) }
UpdateResult(map, key) == IF Get(map, key) = None THEN "UpdateError" ELSE "Ok"

get_proposal(key) ==
  /\ calls < MaxCalls
  /\ calls' = calls + 1
  /\ prev' = store
  /\ last' = Call("get_proposal", key, "", NoDesc, FALSE, "", "Ok",
                  Get(store, key))
  /\ UNCHANGED <<store, created, ended, inserted, votes>>

get_proposal_count ==
  /\ calls < MaxCalls
  /\ calls' = calls + 1
  /\ prev' = store
  /\ last' = Call("get_proposal_count", 0, "", NoDesc, FALSE, "", "Ok",
                  Some(MapLen(store)))
  /\ UNCHANGED <<store, created, ended, inserted, votes>>

\* Mutants of create_value: the owner is the anonymous principal instead of
\* the caller; the is_active argument is ignored.
create_value_anonymous(proposal, caller) ==
  Proposal(proposal.description, 0, 0, 0, proposal.is_active, <<>>, "B")

create_value_always_active(proposal, caller) ==
  Proposal(proposal.description, 0, 0, 0, TRUE, <<>>, caller)

create_value(proposal, caller) ==
  Proposal(proposal.description, 0, 0, 0, proposal.is_active, <<>>, caller)

create_proposal(key, proposal, caller) ==
  LET value == create_value(proposal, caller) IN
  /\ calls < MaxCalls
  /\ calls' = calls + 1
  /\ prev' = store
  /\ created' = created \cup {key}
  /\ UNCHANGED ended
  /\ votes' = [votes EXCEPT ![key] = [p \in Principals |-> 0]]
  /\ inserted' = IF InsertPanics(value) THEN inserted ELSE inserted \cup {key}
  /\ IF InsertPanics(value)
     THEN /\ store' = store
          /\ last' = Call("create_proposal", key, caller, proposal.description,
                          proposal.is_active, "", "Trap", None)
     ELSE /\ store' = Insert(store, key, value)
          /\ last' = Call("create_proposal", key, caller, proposal.description,
                          proposal.is_active, "", "Ok", Get(store, key))

\* Mutant of is_owner: the owner check is missing.
is_owner_anyone(old_proposal, caller) == TRUE

\* old_proposal.owner != ic_cdk::caller() is the refusal
is_owner(old_proposal, caller) == old_proposal.owner = caller

\* Mutant of edit_value: the record is rebuilt as create_proposal builds it.
edit_value_resets(old_proposal, proposal) ==
  Proposal(proposal.description, 0, 0, 0, proposal.is_active, <<>>,
           old_proposal.owner)

\* Mutant of edit_value: the new description is dropped.
edit_value_keeps_description(old_proposal, proposal) ==
  Proposal(old_proposal.description, old_proposal.approve,
           old_proposal.reject, old_proposal.pass, proposal.is_active,
           old_proposal.voted, old_proposal.owner)

\* Mutant of edit_value: the voters are not carried over.
edit_value_clears_voted(old_proposal, proposal) ==
  Proposal(proposal.description, old_proposal.approve, old_proposal.reject,
           old_proposal.pass, proposal.is_active, <<>>, old_proposal.owner)

edit_value(old_proposal, proposal) ==
  Proposal(proposal.description, old_proposal.approve, old_proposal.reject,
           old_proposal.pass, proposal.is_active, old_proposal.voted,
           old_proposal.owner)

edit_proposal(key, proposal, caller) ==
  LET reply(result) == Call("edit_proposal", key, caller, proposal.description,
                            proposal.is_active, "", result, None) IN
  /\ calls < MaxCalls
  /\ calls' = calls + 1
  /\ prev' = store
  /\ UNCHANGED <<created, ended, inserted, votes>>
  /\ IF Get(store, key) = None
     THEN /\ store' = store
          /\ last' = reply("NoSuchProposal")
     ELSE LET old_proposal == store[key]
              value == edit_value(old_proposal, proposal) IN
          IF ~is_owner(old_proposal, caller)
          THEN /\ store' = store
               /\ last' = reply("AccessRejected")
          ELSE IF InsertPanics(value)
          THEN /\ store' = store
               /\ last' = reply("Trap")
          ELSE /\ store' = Insert(store, key, value)
               /\ last' = reply(UpdateResult(store, key))

\* Mutant of end_value: the flag is set the wrong way.
end_value_reopens(old_proposal) == [old_proposal EXCEPT !.is_active = TRUE]

\* Mutant of end_value: the flag is flipped instead of cleared.
end_value_toggles(old_proposal) ==
  [old_proposal EXCEPT !.is_active = ~old_proposal.is_active]

end_value(old_proposal) == [old_proposal EXCEPT !.is_active = FALSE]

\* Mutant of end_proposal: an absent key is not reported.
end_proposal_absent_ok(key, caller) ==
  LET reply(result) == Call("end_proposal", key, caller, NoDesc, FALSE, "",
                            result, None) IN
  /\ calls < MaxCalls
  /\ calls' = calls + 1
  /\ prev' = store
  /\ UNCHANGED <<created, inserted, votes>>
  /\ IF Get(store, key) = None
     THEN /\ store' = store
          /\ last' = reply("Ok")
     ELSE LET old_proposal == store[key]
              value == end_value(old_proposal) IN
          IF ~is_owner(old_proposal, caller)
          THEN /\ store' = store
               /\ last' = reply("AccessRejected")
          ELSE IF InsertPanics(value)
          THEN /\ store' = store
               /\ last' = reply("Trap")
          ELSE /\ store' = Insert(store, key, value)
               /\ last' = reply(UpdateResult(store, key))
  /\ ended' = IF last'.result = "Ok" THEN ended \cup {key} ELSE ended

end_proposal(key, caller) ==
  LET reply(result) == Call("end_proposal", key, caller, NoDesc, FALSE, "",
                            result, None) IN
  /\ calls < MaxCalls
  /\ calls' = calls + 1
  /\ prev' = store
  /\ UNCHANGED <<created, inserted, votes>>
  /\ IF Get(store, key) = None
     THEN /\ store' = store
          /\ last' = reply("NoSuchProposal")
     ELSE LET old_proposal == store[key]
              value == end_value(old_proposal) IN
          IF ~is_owner(old_proposal, caller)
          THEN /\ store' = store
               /\ last' = reply("AccessRejected")
          ELSE IF InsertPanics(value)
          THEN /\ store' = store
               /\ last' = reply("Trap")
          ELSE /\ store' = Insert(store, key, value)
               /\ last' = reply(UpdateResult(store, key))
  /\ ended' = IF last'.result = "Ok" THEN ended \cup {key} ELSE ended

\* Mutants of apply_choice: Pass adds to its counter like the other two;
\* Reject subtracts from its counter as Pass does.
apply_choice_pass_adds(proposal, choice) ==
  IF choice = "Approve" THEN [proposal EXCEPT !.approve = @ + 1]
  ELSE IF choice = "Pass" THEN [proposal EXCEPT !.pass = @ + 1]
  ELSE [proposal EXCEPT !.reject = @ + 1]

apply_choice_reject_subtracts(proposal, choice) ==
  IF choice = "Approve" THEN [proposal EXCEPT !.approve = @ + 1]
  ELSE IF choice = "Pass" THEN [proposal EXCEPT !.pass = @ - 1]
  ELSE [proposal EXCEPT !.reject = @ - 1]

\* match choice { Approve => approve += 1, Pass => pass -= 1,
\*                Reject => reject += 1 }
apply_choice(proposal, choice) ==
  IF choice = "Approve" THEN [proposal EXCEPT !.approve = @ + 1]
  ELSE IF choice = "Pass" THEN [proposal EXCEPT !.pass = @ - 1]
  ELSE [proposal EXCEPT !.reject = @ + 1]

\* Mutant of push_voter: the voter is not recorded.
push_voter_forgets(proposal, caller) == proposal

\* proposal.voted.push(caller)
push_voter(proposal, caller) ==
  [proposal EXCEPT !.voted = Append(@, caller)]

vote_value(proposal, choice, caller) ==
  push_voter(apply_choice(proposal, choice), caller)

\* Mutants of vote_check: no AlreadyVoted check; no is_active check; the two
\* checks in the other order.
vote_check_skips_voted(proposal, caller) ==
  IF ~proposal.is_active THEN "ProposalIsNotActive" ELSE ""

vote_check_skips_active(proposal, caller) ==
  IF Contains(proposal.voted, caller) THEN "AlreadyVoted" ELSE ""

vote_check_active_first(proposal, caller) ==
  IF ~proposal.is_active THEN "ProposalIsNotActive"
  ELSE IF Contains(proposal.voted, caller) THEN "AlreadyVoted"
  ELSE ""

\* The two checks of vote before it changes anything; "" when both pass.
vote_check(proposal, caller) ==
  IF Contains(proposal.voted, caller) THEN "AlreadyVoted"
  ELSE IF ~proposal.is_active THEN "ProposalIsNotActive"
  ELSE ""

\* Mutant of vote: the counter is moved and written before the checks.
vote_counts_first(key, choice, caller) ==
  LET reply(result) == Call("vote", key, caller, NoDesc, FALSE, choice,
                            result, None) IN
  /\ calls < MaxCalls
  /\ calls' = calls + 1
  /\ prev' = store
  /\ UNCHANGED <<created, ended, inserted>>
  /\ IF Get(store, key) = None
     THEN /\ store' = store
          /\ last' = reply("NoSuchProposal")
     ELSE LET proposal == store[key]
              value == vote_value(proposal, choice, caller) IN
          IF vote_check(proposal, caller) # ""
          THEN /\ store' = Insert(store, key, apply_choice(proposal, choice))
               /\ last' = reply(vote_check(proposal, caller))
          ELSE IF InsertPanics(value)
          THEN /\ store' = store
               /\ last' = reply("Trap")
          ELSE /\ store' = Insert(store, key, value)
               /\ last' = reply(UpdateResult(store, key))
  /\ votes' = IF last'.result = "Ok"
              THEN [votes EXCEPT ![key][caller] = @ + 1]
              ELSE votes

vote(key, choice, caller) ==
  LET reply(result) == Call("vote", key, caller, NoDesc, FALSE, choice,
                            result, None) IN
  /\ calls < MaxCalls
  /\ calls' = calls + 1
  /\ prev' = store
  /\ UNCHANGED <<created, ended, inserted>>
  /\ IF Get(store, key) = None
     THEN /\ store' = store
          /\ last' = reply("NoSuchProposal")
     ELSE LET proposal == store[key]
              value == vote_value(proposal, choice, caller) IN
          IF vote_check(proposal, caller) # ""
          THEN /\ store' = store
               /\ last' = reply(vote_check(proposal, caller))
          ELSE IF InsertPanics(value)
          THEN /\ store' = store
               /\ last' = reply("Trap")
          ELSE /\ store' = Insert(store, key, value)
               /\ last' = reply(UpdateResult(store, key))
  /\ votes' = IF last'.result = "Ok"
              THEN [votes EXCEPT ![key][caller] = @ + 1]
              ELSE votes

Next ==
  \/ \E key \in Keys : get_proposal(key)
  \/ get_proposal_count
  \/ \E key \in Keys, proposal \in CreateProposal, caller \in Principals :
       create_proposal(key, proposal, caller)
  \/ \E key \in Keys, proposal \in CreateProposal, caller \in Principals :
       edit_proposal(key, proposal, caller)
  \/ \E key \in Keys, caller \in Principals : end_proposal(key, caller)
  \/ \E key \in Keys, choice \in Choice, caller \in Principals :
       vote(key, choice, caller)

Spec == Init /\ [][Next]_vars

\* ------------------------------------------------------------ properties
\* The last call was one of the three updates of an existing record.
IsUpdate == last.name \in {"edit_proposal", "end_proposal", "vote"}

\* The counters and the voters of a record.
Tally(p) == <<p.approve, p.reject, p.pass, p.voted>>

\* The last call was made by someone else than the owner of its record.
ByNonOwner ==
  /\ last.name \in {"edit_proposal", "end_proposal"}
  /\ last.key \in DOMAIN prev
  /\ prev[last.key].owner # last.caller

\* The last call was a vote by a new voter on an active record.
FreshVote ==
  /\ last.name = "vote"
  /\ last.key \in DOMAIN prev
  /\ prev[last.key].is_active
  /\ ~Contains(prev[last.key].voted, last.caller)

\* C1 as stated: no call changes the is_active of a stored proposal from
\* false to true.
C1_NeverReopened ==
  \A k \in DOMAIN prev : ~prev[k].is_active => ~store[k].is_active

\* C1 amended: is_active of a stored proposal goes from false to true only
\* by a successful edit_proposal of its owner with is_active = true or by a
\* create_proposal on its key with is_active = true; end_proposal and vote
\* never do it.
C1_ReopenedOnlyByEditOrCreate ==
  \A k \in DOMAIN prev :
    (~prev[k].is_active /\ store[k].is_active) =>
      /\ last.key = k
      /\ last.is_active
      /\ last.result = "Ok"
      /\ \/ last.name = "create_proposal"
         \/ last.name = "edit_proposal" /\ last.caller = prev[k].owner

C1_Witness ==
  /\ last.name = "edit_proposal"
  /\ last.key \in DOMAIN prev
  /\ ~prev[last.key].is_active
  /\ store[last.key].is_active

\* C2: no principal appears more than once in the voted list of any stored
\* proposal.
C2_VotedDistinct ==
  \A k \in DOMAIN store :
    \A i, j \in 1..Len(store[k].voted) :
      store[k].voted[i] = store[k].voted[j] => i = j

C2_Witness ==
  /\ last.name = "vote"
  /\ last.result = "AlreadyVoted"
  /\ Len(store[last.key].voted) >= 2

\* C3: edit_proposal or end_proposal on an existing key by a caller who is
\* not the stored owner returns AccessRejected and leaves the store as it
\* was.
C3_NonOwnerRejected ==
  ByNonOwner => (last.result = "AccessRejected" /\ store = prev)

C3_Witness ==
  /\ ByNonOwner
  /\ prev[last.key].is_active
  /\ last.name = "end_proposal" \/ last.description # prev[last.key].description

\* C4: create_proposal sets the owner to its caller, and edit_proposal,
\* end_proposal and vote, successful or not, leave the owner of every stored
\* proposal as it was.
C4_OwnerFixed ==
  /\ (last.name = "create_proposal" /\ last.result = "Ok") =>
       store[last.key].owner = last.caller
  /\ IsUpdate =>
       \A k \in DOMAIN prev : k \in DOMAIN store /\ store[k].owner = prev[k].owner

C4_Witness ==
  /\ last.name = "vote"
  /\ last.result = "Ok"
  /\ last.caller # store[last.key].owner

\* C5: a vote succeeds only on a proposal that is active when it is called;
\* a vote on an existing inactive proposal by a caller not in voted fails
\* with ProposalIsNotActive and changes nothing.
C5_VoteNeedsActive ==
  last.name = "vote" =>
    /\ last.result = "Ok" => (last.key \in DOMAIN prev /\ prev[last.key].is_active)
    /\ ( /\ last.key \in DOMAIN prev
         /\ ~prev[last.key].is_active
         /\ ~Contains(prev[last.key].voted, last.caller) ) =>
         (last.result = "ProposalIsNotActive" /\ store = prev)

C5_Witness ==
  /\ last.name = "vote"
  /\ last.result = "ProposalIsNotActive"
  /\ last.key \in ended

\* C6 as stated: once end_proposal has succeeded on a key, no vote on the key
\* succeeds and its counters and voted list never change.
C6_ClosedForGood ==
  \A k \in ended \cap DOMAIN prev :
    /\ ~(last.name = "vote" /\ last.key = k /\ last.result = "Ok")
    /\ Tally(store[k]) = Tally(prev[k])

\* C6 amended: once end_proposal has succeeded on a key, for as long as the
\* proposal stays inactive no vote on the key succeeds and edit_proposal and
\* end_proposal leave its counters and voted list alone; they change only by
\* a create_proposal on the key, or by votes after an edit_proposal of the
\* owner or a create_proposal has set is_active to true again.
C6_ClosedUntilReopened ==
  \A k \in ended \cap DOMAIN prev :
    ~prev[k].is_active =>
      /\ ~(last.name = "vote" /\ last.key = k /\ last.result = "Ok")
      /\ \/ Tally(store[k]) = Tally(prev[k])
         \/ last.name = "create_proposal" /\ last.key = k

C6_Witness ==
  /\ last.name = "edit_proposal"
  /\ last.result = "Ok"
  /\ last.key \in ended
  /\ ~prev[last.key].is_active
  /\ prev[last.key].voted # <<>>

\* The first vote of C7 as stated: it succeeds and moves the counters once.
C7_FirstAlways ==
  FreshVote =>
    /\ last.result = "Ok"
    /\ (store[last.key].approve - prev[last.key].approve)
         + (store[last.key].reject - prev[last.key].reject)
         + (prev[last.key].pass - store[last.key].pass) = 1

\* The first vote of C7: it succeeds when the record with the voter added
\* fits the store, and then moves exactly one counter by one step and adds
\* the voter; otherwise it traps and changes nothing.
C7_First ==
  FreshVote =>
    LET old == prev[last.key]
        new == store[last.key] IN
    IF to_bytes_len(old) + PrincipalSize(last.caller) <= MAX_VALUE_SIZE
    THEN /\ last.result = "Ok"
         /\ new.approve >= old.approve
         /\ new.reject >= old.reject
         /\ new.pass <= old.pass
         /\ (new.approve - old.approve) + (new.reject - old.reject)
              + (old.pass - new.pass) = 1
         /\ Len(new.voted) = Len(old.voted) + 1
    ELSE last.result = "Trap" /\ store = prev

\* The second vote of C7: the same caller voting again on the same key right
\* after a successful vote gets AlreadyVoted and changes nothing.
C7_Second ==
  ( /\ last.name = "vote"
    /\ last.result = "Ok"
    /\ last'.name = "vote"
    /\ last'.key = last.key
    /\ last'.caller = last.caller ) =>
    (last'.result = "AlreadyVoted" /\ store' = store)

\* C7 amended: two votes in a row by the same caller on the same active key,
\* the caller not in voted before: if the record with the caller added fits
\* in 5000 bytes the first succeeds and the second returns AlreadyVoted, the
\* counters moving exactly once; if it does not fit the first traps and
\* changes nothing.
C7_VoteTwice == [][C7_First' /\ C7_Second]_vars

\* C7 as stated: of two votes in a row by the same caller on the same active
\* key, the caller not in voted before, the first succeeds, the second
\* returns AlreadyVoted, and the counters move exactly once.
C7_VoteTwiceAlways == [][C7_FirstAlways' /\ C7_Second]_vars

C7_Witness ==
  /\ last.name = "vote"
  /\ last.result = "AlreadyVoted"
  /\ prev[last.key].is_active
  /\ prev[last.key].voted[Len(prev[last.key].voted)] = last.caller

\* C8: vote checks in a fixed order: NoSuchProposal for an absent key, then
\* AlreadyVoted for a caller in voted even if the proposal is inactive, then
\* ProposalIsNotActive.
C8_VoteCheckOrder ==
  last.name = "vote" =>
    IF last.key \notin DOMAIN prev THEN last.result = "NoSuchProposal"
    ELSE IF Contains(prev[last.key].voted, last.caller)
         THEN last.result = "AlreadyVoted"
    ELSE IF ~prev[last.key].is_active
         THEN last.result = "ProposalIsNotActive"
    ELSE last.result \in {"Ok", "Trap"}

C8_Witness ==
  /\ last.name = "vote"
  /\ last.key \in ended
  /\ ~prev[last.key].is_active
  /\ Contains(prev[last.key].voted, last.caller)
  /\ last.result = "AlreadyVoted"

\* C9: on a key create_proposal was never called with, get_proposal returns
\* absent and edit_proposal, end_proposal and vote return NoSuchProposal and
\* leave the store unchanged.
C9_NeverCreated ==
  /\ \A k \in Keys \ created : Get(store, k) = None
  /\ last.key \in Keys \ created =>
       /\ last.name = "get_proposal" => last.ret = None
       /\ IsUpdate => (last.result = "NoSuchProposal" /\ store = prev)

C9_Witness ==
  /\ IsUpdate
  /\ last.key \notin created
  /\ store # <<>>

\* C10 as stated: create_proposal never fails, stores the fresh record of
\* its caller and returns what was at the key before.
C10_CreateNeverFails ==
  last.name = "create_proposal" =>
    /\ last.result = "Ok"
    /\ last.ret = Get(prev, last.key)
    /\ Get(store, last.key) =
         Some([description |-> last.description, approve |-> 0,
               reject |-> 0, pass |-> 0, is_active |-> last.is_active,
               voted |-> <<>>, owner |-> last.caller])

\* C10 amended: create_proposal by caller c, when the new record fits in
\* 5000 bytes, stores at the key the given description and is_active, zero
\* counters, no voters and owner c, whatever was at the key before, and
\* returns what was at the key before; when the record does not fit the
\* call traps and the store is unchanged.
C10_CreateStoresFresh ==
  last.name = "create_proposal" =>
    IF 52 + Leb128Len(last.description.n) + last.description.n + 14
         + PrincipalSize(last.caller) <= MAX_VALUE_SIZE
    THEN /\ last.result = "Ok"
         /\ last.ret = Get(prev, last.key)
         /\ Get(store, last.key) =
              Some([description |-> last.description, approve |-> 0,
                    reject |-> 0, pass |-> 0, is_active |-> last.is_active,
                    voted |-> <<>>, owner |-> last.caller])
         /\ \A k \in DOMAIN prev \ {last.key} : Get(store, k) = Get(prev, k)
    ELSE last.result = "Trap" /\ store = prev

C10_Witness ==
  /\ last.name = "create_proposal"
  /\ last.result = "Ok"
  /\ last.key \in DOMAIN prev
  /\ prev[last.key].owner # last.caller
  /\ prev[last.key].voted # <<>>

\* The last call was made by the owner of its record.
ByOwner ==
  /\ last.key \in DOMAIN prev
  /\ prev[last.key].owner = last.caller

\* The first end_proposal of C11: called by the owner it succeeds, clears
\* is_active and leaves every other field as it was.
C11_First ==
  (last.name = "end_proposal" /\ ByOwner) =>
    LET old == prev[last.key]
        new == store[last.key] IN
    /\ last.result = "Ok"
    /\ ~new.is_active
    /\ Tally(new) = Tally(old)
    /\ new.description = old.description
    /\ new.owner = old.owner

\* The second end_proposal of C11: right after a successful one, by the same
\* caller on the same key, it succeeds again and changes nothing.
C11_Second ==
  ( /\ last.name = "end_proposal"
    /\ last.result = "Ok"
    /\ last'.name = "end_proposal"
    /\ last'.key = last.key
    /\ last'.caller = last.caller ) =>
    (last'.result = "Ok" /\ store' = store /\ ~store'[last.key].is_active)

\* C11: end_proposal called twice in a row by the owner on an existing key
\* succeeds both times; after each call is_active is false and the counters,
\* voted, description and owner are those from before the first call.
C11_EndTwice == [][C11_First' /\ C11_Second]_vars

C11_Witness ==
  /\ last.name = "end_proposal"
  /\ last.result = "Ok"
  /\ last.key \in DOMAIN prev
  /\ ~prev[last.key].is_active
  /\ prev[last.key].voted # <<>>

\* C12: a successful edit_proposal sets description and is_active of the
\* stored record to its arguments and keeps owner, voted and the three
\* counters of the record from before the call.
C12_EditFrame ==
  (last.name = "edit_proposal" /\ last.result = "Ok") =>
    /\ ByOwner
    /\ LET old == prev[last.key]
           new == store[last.key] IN
       /\ new.description = last.description
       /\ new.is_active = last.is_active
       /\ new.owner = old.owner
       /\ new.voted = old.voted
       /\ new.approve = old.approve
       /\ new.reject = old.reject
       /\ new.pass = old.pass

C12_Witness ==
  /\ last.name = "edit_proposal"
  /\ last.result = "Ok"
  /\ prev[last.key].voted # <<>>
  /\ prev[last.key].description # last.description
  /\ prev[last.key].is_active # last.is_active

\* C13: a call of edit_proposal, end_proposal or vote that returns one of
\* the five errors leaves the whole store, every record and the record
\* count, as it was before the call.
C13_ErrorsChangeNothing ==
  (IsUpdate /\ last.result \in VoteError) =>
    /\ DOMAIN store = DOMAIN prev
    /\ \A k \in DOMAIN prev : store[k] = prev[k]
    /\ Cardinality(DOMAIN store) = Cardinality(DOMAIN prev)

C13_Witness ==
  /\ last.name = "vote"
  /\ last.result = "ProposalIsNotActive"
  /\ Cardinality(DOMAIN store) = 2

\* Encoded bytes of a description.
TextSize(d) == Leb128Len(d.n) + d.n

\* C14: every stored record encodes to at most 5000 bytes; a
\* create_proposal, edit_proposal or vote whose record would be larger is
\* refused by the store, the caller sees the failure, and the store is
\* unchanged.
C14_SizeCap ==
  /\ \A k \in DOMAIN store : to_bytes_len(store[k]) <= MAX_VALUE_SIZE
  /\ last.result = "Trap" => store = prev
  /\ ( /\ last.name = "create_proposal"
       /\ 52 + TextSize(last.description) + 14 + PrincipalSize(last.caller)
            > MAX_VALUE_SIZE ) => last.result = "Trap"
  /\ ( /\ last.name = "edit_proposal"
       /\ ByOwner
       /\ to_bytes_len(prev[last.key]) - TextSize(prev[last.key].description)
            + TextSize(last.description) > MAX_VALUE_SIZE ) =>
       last.result = "Trap"
  /\ ( /\ FreshVote
       /\ to_bytes_len(prev[last.key]) + PrincipalSize(last.caller)
            > MAX_VALUE_SIZE ) => last.result = "Trap"

C14_Witness ==
  /\ last.name = "vote"
  /\ last.result = "Trap"
  /\ to_bytes_len(store[last.key]) > MAX_VALUE_SIZE - 31

\* C15: a successful vote moves exactly one counter by one step, Approve
\* adding 1 to approve, Reject adding 1 to reject and Pass subtracting 1 from
\* pass, appends the caller to voted and changes nothing else.
C15_VoteEffect ==
  (last.name = "vote" /\ last.result = "Ok") =>
    LET old == prev[last.key]
        new == store[last.key]
        step(c) == IF last.choice = c THEN 1 ELSE 0 IN
    /\ new.approve = old.approve + step("Approve")
    /\ new.reject = old.reject + step("Reject")
    /\ new.pass = old.pass - step("Pass")
    /\ new.voted = old.voted \o <<last.caller>>
    /\ new.description = old.description
    /\ new.is_active = old.is_active
    /\ new.owner = old.owner

C15_Witness ==
  /\ last.name = "vote"
  /\ last.result = "Ok"
  /\ last.choice = "Pass"
  /\ store[last.key].pass = -1
  /\ store[last.key].approve = 1

\* C16: a call with key k leaves the record at every other key as it was,
\* present or absent, and get_proposal and get_proposal_count change nothing.
C16_OtherKeysUntouched ==
  /\ \A k \in Keys \ {last.key} : Get(store, k) = Get(prev, k)
  /\ last.name \in {"get_proposal", "get_proposal_count"} => store = prev

C16_Witness ==
  /\ last.name \in {"create_proposal", "vote"}
  /\ last.result = "Ok"
  /\ \E k \in DOMAIN store \ {last.key} : store[k].voted # <<>>

\* The last call put a record at a key that had none.
NewKey ==
  /\ last.name = "create_proposal"
  /\ last.key \notin DOMAIN prev

\* C17 as stated: the count is the number of keys create_proposal has been
\* called with; it grows by one on a create_proposal of an unoccupied key and
\* is unchanged by every other call.
C17_CountsCreateCalls ==
  /\ Cardinality(DOMAIN store) = Cardinality(created)
  /\ last.name = "get_proposal_count" => last.ret = Some(Cardinality(created))
  /\ Cardinality(DOMAIN store) =
       Cardinality(DOMAIN prev) + (IF NewKey THEN 1 ELSE 0)

\* C17 amended: the count is the number of keys on which create_proposal has
\* returned; it grows by one on a create_proposal of an unoccupied key that
\* returns, is unchanged by a create_proposal that traps, by a
\* create_proposal of an occupied key and by every edit_proposal,
\* end_proposal and vote, and never decreases.
C17_CountsCreatedRecords ==
  /\ Cardinality(DOMAIN store) = Cardinality(inserted)
  /\ last.name = "get_proposal_count" => last.ret = Some(Cardinality(inserted))
  /\ Cardinality(DOMAIN store) =
       Cardinality(DOMAIN prev)
         + (IF NewKey /\ last.result = "Ok" THEN 1 ELSE 0)

C17_Witness ==
  /\ last.name = "get_proposal_count"
  /\ last.ret = Some(1)
  /\ Cardinality(created) = 2
  /\ ~store[CHOOSE k \in DOMAIN store : TRUE].is_active

\* C18: every stored proposal has approve >= 0, reject >= 0, pass <= 0 and
\* approve + reject - pass equal to the number of principals in voted.
C18_TallyConsistent ==
  \A k \in DOMAIN store :
    /\ store[k].approve >= 0
    /\ store[k].reject >= 0
    /\ store[k].pass <= 0
    /\ store[k].approve + store[k].reject - store[k].pass = Len(store[k].voted)

C18_Witness ==
  /\ last.name = "edit_proposal"
  /\ last.result = "Ok"
  /\ store[last.key].reject = 1
  /\ store[last.key].pass = -1

\* C19: between two consecutive create_proposal calls on a key each principal
\* has at most one successful vote on the key, whatever edit_proposal and
\* end_proposal calls come in between; a principal that has voted stays in
\* voted until a create_proposal replaces the record.
C19_OneVotePerLifetime ==
  \A k \in Keys : \A p \in Principals :
    /\ votes[k][p] <= 1
    /\ votes[k][p] = 1 => (k \in DOMAIN store /\ Contains(store[k].voted, p))

C19_Witness ==
  /\ last.name = "vote"
  /\ last.result = "AlreadyVoted"
  /\ votes[last.key][last.caller] = 1
  /\ last.key \in ended

\* C20: no call of edit_proposal, end_proposal or vote returns UpdateError.
C20_NoUpdateError == last.result # "UpdateError"

C20_Witness ==
  /\ last.name = "end_proposal"
  /\ last.result = "Ok"
  /\ prev[last.key].is_active
  /\ store = Insert(prev, last.key, store[last.key])
  /\ store # prev

====
